---- MODULE Spec2Model ----
(***************************************************************************)
(* The CertificateNft registry (smart-contracts/contracts/                 *)
(* CertificateNft.sol): role table, issuer table, certificate table,       *)
(* token ownership, token counter and the event log, with one action per   *)
(* external function.  Every function has a Result operator that walks its *)
(* modifiers and requires in source order and names the failure, or OK.    *)
(* An action is one call whose Result is OK: it has the function's effects *)
(* and `last` records the call and its arguments.  A call that reverts     *)
(* changes nothing at all, so it is a stuttering step; transferFrom, which *)
(* the guard never lets through, is written out with that branch.          *)
(***************************************************************************)
EXTENDS Integers, Sequences, FiniteSets, TLC

\* ---------------------------------------------------------------- bounds
MaxCalls == 4
MaxTokens == 2
MaxTime == 2

\* ------------------------------------------------------------ identities
ZERO == "0x0"
Deployer == "A"
EOAs == {"A"}
Contracts == {"K"}
Addr == EOAs \cup Contracts
Targets == Addr \cup {ZERO}
TokenIds == 0..MaxTokens
IssuerTexts == {<<"n1", "w1">>}
CertificateTexts == {<<"r1", "t1">>}

DEFAULT_ADMIN_ROLE == "DEFAULT_ADMIN_ROLE"
ADMIN_ROLE == "ADMIN_ROLE"
ISSUER_ROLE == "ISSUER_ROLE"
Roles == {DEFAULT_ADMIN_ROLE, ADMIN_ROLE, ISSUER_ROLE}

Active == "Active"
Suspended == "Suspended"
Deactivated == "Deactivated"
IssuerStatus == {Active, Suspended, Deactivated}

\* --------------------------------------------------------------- results
OK == "ok"
Unauthorized == "Unauthorized"
IssuerAlreadyExists == "IssuerAlreadyExists"
IssuerNotFound == "IssuerNotFound"
IssuerDeactivated == "IssuerDeactivated"
StatusUnchanged == "StatusUnchanged"
IssuerNotActive == "IssuerNotActive"
TransferForbidden == "TransferForbidden"
CredentialNotFound == "CredentialNotFound"
InvalidReceiver == "ERC721InvalidReceiver"
NonexistentToken == "ERC721NonexistentToken"
BadConfirmation == "AccessControlBadConfirmation"

\* log is the stream of the events the contract declares (IssuerAdded,
\* IssuerRoleRevoked, IssuerStatusUpdated, CertificateIssued); the events of
\* the inherited libraries (RoleGranted, RoleRevoked, Transfer) are left out.
\* now is block.timestamp; pending holds the issueCertificate calls whose
\* safe mint is waiting for the recipient's receiver hook, innermost last.
\* checkpoint is the storage as it was when a call that is about to revert
\* began (NoCheckpoint when no call is reverting).
VARIABLES roles, issuers, certificateDetails, nextTokenId, owners, log, now, pending, last, checkpoint

vars == <<roles, issuers, certificateDetails, nextTokenId, owners, log, now, pending, last, checkpoint>>

state == <<roles, issuers, certificateDetails, nextTokenId, owners, log>>

\* ------------------------------------------------------------ data model
NoIssuer == [name |-> "", website |-> "", status |-> Active, registrationDate |-> 0]

NoCertificate == [recipientName |-> "", recipientAddress |-> ZERO, issuerAddress |-> ZERO, issueDate |-> 0, courseTitle |-> ""]

NoCheckpoint == <<>>

NoCall == [n |-> 0, op |-> "constructor", caller |-> Deployer, target |-> ZERO, role |-> "-", status |-> "-", tokenId |-> -1, s1 |-> "", s2 |-> "", result |-> OK]

Call(op, caller, target, result) == [NoCall EXCEPT !.n = last.n + 1, !.op = op, !.caller = caller, !.target = target, !.result = result]

\* ------------------------------------------------------ capability table
hasRole(role, account) == account \in roles[role]

\* Mutant: every role administered by DEFAULT_ADMIN_ROLE.
getRoleAdmin_Flat(role) == DEFAULT_ADMIN_ROLE

getRoleAdmin(role) == IF role = ISSUER_ROLE THEN ADMIN_ROLE ELSE DEFAULT_ADMIN_ROLE

onlyRole(role, caller) == hasRole(role, caller)

grantedRoles(role, account) == [roles EXCEPT ![role] = @ \cup {account}]

\* Mutant: the revocation writes nothing.
revokedRoles_Kept(role, account) == roles

revokedRoles(role, account) == [roles EXCEPT ![role] = @ \ {account}]

\* -------------------------------------------------------- existence rule
\* Mutant: existence judged by role membership instead of the timestamp.
issuerExists_ByRole(a) == hasRole(ISSUER_ROLE, a)

issuerExists(a) == issuers[a].registrationDate # 0

\* Mutant: every id taken to exist.
certificateExists_Always(id) == TRUE

certificateExists(id) == certificateDetails[id].issueDate # 0

\* The two queries: getCertificateDetails, with its require, and the getter
\* of the public mapping issuers, which has none.
getCertificateDetailsResult(tokenId) == IF ~certificateExists(tokenId) THEN CredentialNotFound ELSE OK

getCertificateDetails(tokenId) == certificateDetails[tokenId]

issuersGetter(a) == issuers[a]

ownerOf(id) == owners[id]

\* The callers that can act now: any account between transactions, only
\* contracts while a receiver callback of a safe mint is running.
Callers == IF pending = <<>> THEN Addr ELSE Contracts

Init ==
  /\ roles = [r \in Roles |-> IF r = ISSUER_ROLE THEN {} ELSE {Deployer}]
  /\ issuers = [a \in Addr |-> NoIssuer]
  /\ certificateDetails = [id \in TokenIds |-> NoCertificate]
  /\ nextTokenId = 0
  /\ owners = [id \in TokenIds |-> ZERO]
  /\ log = <<>>
  /\ now = 1
  /\ pending = <<>>
  /\ last = NoCall
  /\ checkpoint = NoCheckpoint

Tick ==
  /\ now < MaxTime
  /\ now' = now + 1
  /\ UNCHANGED <<roles, issuers, certificateDetails, nextTokenId, owners, log, pending, last, checkpoint>>

\* ------------------------------------------------- AccessControl calls
GrantRoleResult(c, role) == IF ~onlyRole(getRoleAdmin(role), c) THEN Unauthorized ELSE OK

RevokeRoleResult(c, role) == IF ~onlyRole(getRoleAdmin(role), c) THEN Unauthorized ELSE OK

RenounceRoleResult(c, confirmation) == IF confirmation # c THEN BadConfirmation ELSE OK

\* The model follows the first MaxCalls successful calls (last.n counts them).
CallFits == last.n < MaxCalls

\* _grantRole of a role already held, and _revokeRole of a role not held,
\* return false without writing or emitting: such a call is no step.
GrantRole(c, role, account) ==
  /\ GrantRoleResult(c, role) = OK
  /\ CallFits
  /\ ~hasRole(role, account)
  /\ roles' = grantedRoles(role, account)
  /\ last' = [Call("grantRole", c, account, OK) EXCEPT !.role = role]
  /\ UNCHANGED <<issuers, certificateDetails, nextTokenId, owners, log, now, pending, checkpoint>>

RevokeRole(c, role, account) ==
  /\ RevokeRoleResult(c, role) = OK
  /\ CallFits
  /\ hasRole(role, account)
  /\ roles' = revokedRoles(role, account)
  /\ last' = [Call("revokeRole", c, account, OK) EXCEPT !.role = role]
  /\ UNCHANGED <<issuers, certificateDetails, nextTokenId, owners, log, now, pending, checkpoint>>

RenounceRole(c, role, confirmation) ==
  /\ RenounceRoleResult(c, confirmation) = OK
  /\ CallFits
  /\ hasRole(role, confirmation)
  /\ roles' = revokedRoles(role, confirmation)
  /\ last' = [Call("renounceRole", c, confirmation, OK) EXCEPT !.role = role]
  /\ UNCHANGED <<issuers, certificateDetails, nextTokenId, owners, log, now, pending, checkpoint>>

\* ------------------------------------------------------ issuer lifecycle
\* Mutant: the require on an existing record left out.
AddIssuerResult_NoExists(c, a) == IF ~onlyRole(ADMIN_ROLE, c) THEN Unauthorized ELSE OK

AddIssuerResult(c, a) ==
  IF ~onlyRole(ADMIN_ROLE, c) THEN Unauthorized
  ELSE IF issuerExists(a) THEN IssuerAlreadyExists
  ELSE OK

\* Mutant: the two strings stored in each other's field.
newIssuer_Swapped(name, website) == [name |-> website, website |-> name, status |-> Active, registrationDate |-> now]

\* Mutant: the record stored without its timestamp.
newIssuer_NoDate(name, website) == [name |-> name, website |-> website, status |-> Active, registrationDate |-> 0]

newIssuer(name, website) == [name |-> name, website |-> website, status |-> Active, registrationDate |-> now]

IssuerAdded(a) == [event |-> "IssuerAdded", issuerAddress |-> a]

AddIssuer(c, a, name, website) ==
  /\ AddIssuerResult(c, a) = OK
  /\ CallFits
  /\ roles' = grantedRoles(ISSUER_ROLE, a)
  /\ issuers' = [issuers EXCEPT ![a] = newIssuer(name, website)]
  /\ log' = Append(log, IssuerAdded(a))
  /\ last' = [Call("addIssuer", c, a, OK) EXCEPT !.s1 = name, !.s2 = website]
  /\ UNCHANGED <<certificateDetails, nextTokenId, owners, now, pending, checkpoint>>

\* Mutant: the require on Deactivated left out.
UpdateIssuerStatusResult_NoTerminal(c, a, newStatus) ==
  IF ~onlyRole(ADMIN_ROLE, c) THEN Unauthorized
  ELSE IF ~issuerExists(a) THEN IssuerNotFound
  ELSE IF issuers[a].status = newStatus THEN StatusUnchanged
  ELSE IF newStatus = Deactivated /\ RevokeRoleResult(c, ISSUER_ROLE) # OK THEN Unauthorized
  ELSE OK

\* Mutant: the require on an unchanged status left out.
UpdateIssuerStatusResult_NoRedundant(c, a, newStatus) ==
  IF ~onlyRole(ADMIN_ROLE, c) THEN Unauthorized
  ELSE IF ~issuerExists(a) THEN IssuerNotFound
  ELSE IF issuers[a].status = Deactivated THEN IssuerDeactivated
  ELSE IF newStatus = Deactivated /\ RevokeRoleResult(c, ISSUER_ROLE) # OK THEN Unauthorized
  ELSE OK

\* Mutant: the onlyRole(ADMIN_ROLE) modifier left out.
UpdateIssuerStatusResult_NoAdmin(c, a, newStatus) ==
  IF ~issuerExists(a) THEN IssuerNotFound
  ELSE IF issuers[a].status = Deactivated THEN IssuerDeactivated
  ELSE IF issuers[a].status = newStatus THEN StatusUnchanged
  ELSE IF newStatus = Deactivated /\ RevokeRoleResult(c, ISSUER_ROLE) # OK THEN Unauthorized
  ELSE OK

UpdateIssuerStatusResult(c, a, newStatus) ==
  IF ~onlyRole(ADMIN_ROLE, c) THEN Unauthorized
  ELSE IF ~issuerExists(a) THEN IssuerNotFound
  ELSE IF issuers[a].status = Deactivated THEN IssuerDeactivated
  ELSE IF issuers[a].status = newStatus THEN StatusUnchanged
  ELSE IF newStatus = Deactivated /\ RevokeRoleResult(c, ISSUER_ROLE) # OK THEN Unauthorized
  ELSE OK

IssuerRoleRevoked(a) == [event |-> "IssuerRoleRevoked", issuerAddress |-> a]

IssuerStatusUpdated(a, oldStatus, newStatus) == [event |-> "IssuerStatusUpdated", issuerAddress |-> a, oldStatus |-> oldStatus, newStatus |-> newStatus]

\* Mutant: the status change also stamps the record with the current time.
UpdateIssuerStatus_Restamps(c, a, newStatus) ==
  LET currentStatus == issuers[a].status IN
  /\ UpdateIssuerStatusResult(c, a, newStatus) = OK
  /\ CallFits
  /\ issuers' = [issuers EXCEPT ![a].status = newStatus, ![a].registrationDate = now]
  /\ roles' = IF newStatus = Deactivated THEN revokedRoles(ISSUER_ROLE, a) ELSE roles
  /\ log' = log
            \o (IF newStatus = Deactivated THEN <<IssuerRoleRevoked(a)>> ELSE <<>>)
            \o <<IssuerStatusUpdated(a, currentStatus, newStatus)>>
  /\ last' = [Call("updateIssuerStatus", c, a, OK) EXCEPT !.status = newStatus]
  /\ UNCHANGED <<certificateDetails, nextTokenId, owners, now, pending, checkpoint>>

\* Mutant: the role is taken away on suspension as well.
UpdateIssuerStatus_SuspendRevokes(c, a, newStatus) ==
  LET currentStatus == issuers[a].status IN
  /\ UpdateIssuerStatusResult(c, a, newStatus) = OK
  /\ CallFits
  /\ issuers' = [issuers EXCEPT ![a].status = newStatus]
  /\ roles' = IF newStatus # Active THEN revokedRoles(ISSUER_ROLE, a) ELSE roles
  /\ log' = log
            \o (IF newStatus = Deactivated THEN <<IssuerRoleRevoked(a)>> ELSE <<>>)
            \o <<IssuerStatusUpdated(a, currentStatus, newStatus)>>
  /\ last' = [Call("updateIssuerStatus", c, a, OK) EXCEPT !.status = newStatus]
  /\ UNCHANGED <<certificateDetails, nextTokenId, owners, now, pending, checkpoint>>

UpdateIssuerStatus(c, a, newStatus) ==
  LET currentStatus == issuers[a].status IN
  /\ UpdateIssuerStatusResult(c, a, newStatus) = OK
  /\ CallFits
  /\ issuers' = [issuers EXCEPT ![a].status = newStatus]
  /\ roles' = IF newStatus = Deactivated THEN revokedRoles(ISSUER_ROLE, a) ELSE roles
  /\ log' = log
            \o (IF newStatus = Deactivated THEN <<IssuerRoleRevoked(a)>> ELSE <<>>)
            \o <<IssuerStatusUpdated(a, currentStatus, newStatus)>>
  /\ last' = [Call("updateIssuerStatus", c, a, OK) EXCEPT !.status = newStatus]
  /\ UNCHANGED <<certificateDetails, nextTokenId, owners, now, pending, checkpoint>>

\* ------------------------------------------------------ ownership guard
\* Mutant: the override's require left out.
updateGuard_Open(tokenId) == TRUE

\* The require of the _update override: the token has no owner yet.
updateGuard(tokenId) == ownerOf(tokenId) = ZERO

\* _update(to, tokenId, auth): the override's require, then ERC721._update,
\* which checks auth (when it is not the zero address) against the owner.
\* Approvals are not modelled: only an owner can give one, and the guard
\* lets no call on an owned token through.
UpdateResult(to, tokenId, auth) ==
  IF ~updateGuard(tokenId) THEN TransferForbidden
  ELSE IF auth # ZERO /\ ownerOf(tokenId) = ZERO THEN NonexistentToken
  ELSE IF auth # ZERO /\ ownerOf(tokenId) # auth THEN "ERC721InsufficientApproval"
  ELSE OK

\* transferFrom / safeTransferFrom as inherited from ERC721: the zero
\* destination is refused first, then _update runs with auth = caller.
TransferFromResult(c, from, to, tokenId) ==
  IF to = ZERO THEN InvalidReceiver
  ELSE IF UpdateResult(to, tokenId, c) # OK THEN UpdateResult(to, tokenId, c)
  ELSE IF ownerOf(tokenId) # from THEN "ERC721IncorrectOwner"
  ELSE OK

TransferFrom(c, from, to, tokenId) ==
  IF TransferFromResult(c, from, to, tokenId) = OK
  THEN /\ CallFits
       /\ owners' = [owners EXCEPT ![tokenId] = to]
       /\ last' = [Call("transferFrom", c, to, OK) EXCEPT !.tokenId = tokenId]
       /\ UNCHANGED <<roles, issuers, certificateDetails, nextTokenId, log, now, pending, checkpoint>>
  ELSE UNCHANGED vars

\* ----------------------------------------------------- credential ledger
\* Mutant: the require on the Active status left out.
IssueCertificateResult_NoStatus(c, to, accepts) ==
  IF ~onlyRole(ISSUER_ROLE, c) THEN Unauthorized
  ELSE IF to = ZERO THEN InvalidReceiver
  ELSE IF UpdateResult(to, nextTokenId, ZERO) # OK THEN UpdateResult(to, nextTokenId, ZERO)
  ELSE IF to \in Contracts /\ ~accepts THEN InvalidReceiver
  ELSE OK

\* Mutant: the status require ahead of the onlyRole modifier.
IssueCertificateResult_StatusFirst(c, to, accepts) ==
  IF issuers[c].status # Active THEN IssuerNotActive
  ELSE IF ~onlyRole(ISSUER_ROLE, c) THEN Unauthorized
  ELSE IF to = ZERO THEN InvalidReceiver
  ELSE IF UpdateResult(to, nextTokenId, ZERO) # OK THEN UpdateResult(to, nextTokenId, ZERO)
  ELSE IF to \in Contracts /\ ~accepts THEN InvalidReceiver
  ELSE OK

\* accepts: whether the receiver hook of a contract recipient returns the
\* ERC721 magic value (an account without code is not asked).
IssueCertificateResult(c, to, accepts) ==
  IF ~onlyRole(ISSUER_ROLE, c) THEN Unauthorized
  ELSE IF issuers[c].status # Active THEN IssuerNotActive
  ELSE IF to = ZERO THEN InvalidReceiver
  ELSE IF UpdateResult(to, nextTokenId, ZERO) # OK THEN UpdateResult(to, nextTokenId, ZERO)
  ELSE IF to \in Contracts /\ ~accepts THEN InvalidReceiver
  ELSE OK

\* Mutant: the counter left as it was.
postIncrement_Forgotten(tokenId) == tokenId

\* _nextTokenId++
postIncrement(tokenId) == tokenId + 1

\* Mutant: the record stored without its timestamp.
newCertificate_NoDate(c, to, recipientName, courseTitle) ==
  [recipientName |-> recipientName, recipientAddress |-> to, issuerAddress |-> c, issueDate |-> 0, courseTitle |-> courseTitle]

newCertificate(c, to, recipientName, courseTitle) ==
  [recipientName |-> recipientName, recipientAddress |-> to, issuerAddress |-> c, issueDate |-> now, courseTitle |-> courseTitle]

\* Mutant: issuer and recipient in each other's place in the event.
CertificateIssued_Swapped(tokenId, issuer, recipient) == [event |-> "CertificateIssued", tokenId |-> tokenId, issuer |-> recipient, recipient |-> issuer]

CertificateIssued(tokenId, issuer, recipient) == [event |-> "CertificateIssued", tokenId |-> tokenId, issuer |-> issuer, recipient |-> recipient]

\* Mutant: the record stored under id 0 whatever the counter says.
IssueCertificate_Overwrites(c, to, recipientName, courseTitle, accepts) ==
  LET tokenId == nextTokenId
      call == [Call("issueCertificate", c, to, OK) EXCEPT !.tokenId = tokenId, !.s1 = recipientName, !.s2 = courseTitle]
  IN
  /\ IssueCertificateResult(c, to, accepts) = OK
  /\ CallFits
  /\ nextTokenId < MaxTokens
  /\ nextTokenId' = postIncrement(nextTokenId)
  /\ certificateDetails' = [certificateDetails EXCEPT ![0] = newCertificate(c, to, recipientName, courseTitle)]
  /\ owners' = [owners EXCEPT ![tokenId] = to]
  /\ IF to \in Contracts
     THEN /\ log' = log
          /\ pending' = Append(pending, call)
          /\ last' = [call EXCEPT !.op = "onERC721Received", !.result = "running"]
     ELSE /\ log' = Append(log, CertificateIssued(tokenId, c, to))
          /\ pending' = pending
          /\ last' = call
  /\ UNCHANGED <<roles, issuers, now, checkpoint>>

\* The call up to the point where _safeMint hands control to the recipient:
\* counter, record and owner are written.  For a
\* recipient without code the call runs to its end in the same step; for a
\* contract recipient the frame waits in `pending` until the hook returns.
IssueCertificate(c, to, recipientName, courseTitle, accepts) ==
  LET tokenId == nextTokenId
      call == [Call("issueCertificate", c, to, OK) EXCEPT !.tokenId = tokenId, !.s1 = recipientName, !.s2 = courseTitle]
  IN
  /\ IssueCertificateResult(c, to, accepts) = OK
  /\ CallFits
  /\ nextTokenId < MaxTokens
  /\ nextTokenId' = postIncrement(nextTokenId)
  /\ certificateDetails' = [certificateDetails EXCEPT ![tokenId] = newCertificate(c, to, recipientName, courseTitle)]
  /\ owners' = [owners EXCEPT ![tokenId] = to]
  /\ IF to \in Contracts
     THEN /\ log' = log
          /\ pending' = Append(pending, call)
          /\ last' = [call EXCEPT !.op = "onERC721Received", !.result = "running"]
     ELSE /\ log' = Append(log, CertificateIssued(tokenId, c, to))
          /\ pending' = pending
          /\ last' = call
  /\ UNCHANGED <<roles, issuers, now, checkpoint>>

\* The receiver hook of the innermost running safe mint returns the magic
\* value: issueCertificate resumes and emits CertificateIssued.
OnERC721ReceivedReturn ==
  /\ pending # <<>>
  /\ LET frame == pending[Len(pending)] IN
       /\ log' = Append(log, CertificateIssued(frame.tokenId, frame.caller, frame.target))
       /\ last' = [frame EXCEPT !.n = last.n]
  /\ pending' = SubSeq(pending, 1, Len(pending) - 1)
  /\ UNCHANGED <<roles, issuers, certificateDetails, nextTokenId, owners, now, checkpoint>>

Next ==
  \/ Tick
  \/ \E c \in Callers, role \in Roles, account \in Addr : GrantRole(c, role, account)
  \/ \E c \in Callers, role \in Roles, account \in Addr : RevokeRole(c, role, account)
  \/ \E c \in Callers, role \in Roles, confirmation \in Addr : RenounceRole(c, role, confirmation)
  \/ \E c \in Callers, a \in Addr, t \in IssuerTexts : AddIssuer(c, a, t[1], t[2])
  \/ \E c \in Callers, a \in Addr, st \in IssuerStatus : UpdateIssuerStatus(c, a, st)
  \/ \E c \in Callers, to \in Targets, t \in CertificateTexts, accepts \in BOOLEAN : IssueCertificate(c, to, t[1], t[2], accepts)
  \/ OnERC721ReceivedReturn
  \/ \E c \in Callers, to \in Targets, tokenId \in 0..nextTokenId : TransferFrom(c, ownerOf(tokenId), to, tokenId)

Spec == Init /\ [][Next]_vars

\* ------------------------------------------------- calls that revert
\* The whole call, as a caller sees it: the effects when the Result is OK,
\* and a revert before anything is written otherwise (in addIssuer,
\* updateIssuerStatus, grantRole, revokeRole and transferFrom every check
\* comes before the first write).
GrantRoleCall(c, role, account) ==
  IF GrantRoleResult(c, role) = OK THEN GrantRole(c, role, account) ELSE UNCHANGED vars

RevokeRoleCall(c, role, account) ==
  IF RevokeRoleResult(c, role) = OK THEN RevokeRole(c, role, account) ELSE UNCHANGED vars

AddIssuerCall(c, a, name, website) ==
  IF AddIssuerResult(c, a) = OK THEN AddIssuer(c, a, name, website) ELSE UNCHANGED vars

UpdateIssuerStatusCall(c, a, newStatus) ==
  IF UpdateIssuerStatusResult(c, a, newStatus) = OK THEN UpdateIssuerStatus(c, a, newStatus) ELSE UNCHANGED vars

\* Mutant: the revert gives back everything but the counter.
revertTo_KeepsCounter(saved) == [saved EXCEPT !.nextTokenId = nextTokenId]

\* What a revert leaves in storage: what was there when the call began.
revertTo(saved) == saved

\* issueCertificate whose mint fails (the recipient is the zero address, or
\* a contract whose receiver hook refuses the token): the modifier and the
\* require have passed, the counter and the record are written, for a
\* contract recipient _mint has written the owner, and then the call
\* reverts.  The step stops at the point of the revert.
IssueCertificateMintFails(c, to, recipientName, courseTitle) ==
  LET tokenId == nextTokenId
      result == IssueCertificateResult(c, to, FALSE)
  IN
  /\ result \notin {OK, Unauthorized, IssuerNotActive}
  /\ nextTokenId < MaxTokens
  /\ checkpoint' = [saved |-> [roles |-> roles, issuers |-> issuers, certificateDetails |-> certificateDetails,
                               nextTokenId |-> nextTokenId, owners |-> owners, log |-> log],
                    result |-> result]
  /\ nextTokenId' = postIncrement(nextTokenId)
  /\ certificateDetails' = [certificateDetails EXCEPT ![tokenId] = newCertificate(c, to, recipientName, courseTitle)]
  /\ owners' = IF to \in Contracts THEN [owners EXCEPT ![tokenId] = to] ELSE owners
  /\ last' = [NoCall EXCEPT !.n = last.n, !.op = "issueCertificate", !.tokenId = tokenId, !.result = "reverting"]
  /\ UNCHANGED <<roles, issuers, log, now, pending>>

\* The precondition failures of issueCertificate revert before any write.
IssueCertificateCall(c, to, recipientName, courseTitle, accepts) ==
  IF IssueCertificateResult(c, to, accepts) = OK THEN IssueCertificate(c, to, recipientName, courseTitle, accepts)
  ELSE IF IssueCertificateResult(c, to, accepts) \in {Unauthorized, IssuerNotActive} THEN UNCHANGED vars
  ELSE IssueCertificateMintFails(c, to, recipientName, courseTitle)

\* The revert of the failing call: storage goes back to the checkpoint and
\* the caller is handed the error.
Revert ==
  /\ checkpoint # NoCheckpoint
  /\ roles' = revertTo(checkpoint.saved).roles
  /\ issuers' = revertTo(checkpoint.saved).issuers
  /\ certificateDetails' = revertTo(checkpoint.saved).certificateDetails
  /\ nextTokenId' = revertTo(checkpoint.saved).nextTokenId
  /\ owners' = revertTo(checkpoint.saved).owners
  /\ log' = revertTo(checkpoint.saved).log
  /\ last' = [last EXCEPT !.result = checkpoint.result]
  /\ checkpoint' = NoCheckpoint
  /\ UNCHANGED <<now, pending>>

\* The calls one by one, reverting ones included; nothing else runs between
\* the failure of a call and its revert.
NextTx ==
  \/ checkpoint = NoCheckpoint /\ Tick
  \/ checkpoint = NoCheckpoint /\ \E c \in Callers, role \in Roles, account \in Addr : GrantRoleCall(c, role, account)
  \/ checkpoint = NoCheckpoint /\ \E c \in Callers, role \in Roles, account \in Addr : RevokeRoleCall(c, role, account)
  \/ checkpoint = NoCheckpoint /\ \E c \in Callers, role \in Roles, confirmation \in Addr : RenounceRole(c, role, confirmation)
  \/ checkpoint = NoCheckpoint /\ \E c \in Callers, a \in Addr, t \in IssuerTexts : AddIssuerCall(c, a, t[1], t[2])
  \/ checkpoint = NoCheckpoint /\ \E c \in Callers, a \in Addr, st \in IssuerStatus : UpdateIssuerStatusCall(c, a, st)
  \/ checkpoint = NoCheckpoint /\ \E c \in Callers, to \in Targets, t \in CertificateTexts, accepts \in BOOLEAN : IssueCertificateCall(c, to, t[1], t[2], accepts)
  \/ checkpoint = NoCheckpoint /\ OnERC721ReceivedReturn
  \/ checkpoint = NoCheckpoint /\ \E c \in Callers, to \in Targets, tokenId \in 0..nextTokenId : TransferFrom(c, ownerOf(tokenId), to, tokenId)
  \/ Revert

SpecTx == Init /\ [][NextTx]_vars
\* ==================================================================
\* Properties
\* ==================================================================
\* A step that starts a successful call of the named functions.
Called(ops) == last'.n # last.n /\ last'.op \in ops

IssueOps == {"issueCertificate", "onERC721Received"}

Issued == {id \in TokenIds : certificateExists(id)}

IssuedEvents == {i \in 1..Len(log) : log[i].event = "CertificateIssued"}

\* ---- C1 ----------------------------------------------------------
\* C1: token ids come from the one counter _nextTokenId: it starts at 0,
\* only a successful issueCertificate changes it, by exactly +1, and the id
\* that issuance gets is the number of issuances before it, whoever the
\* issuers are: the old counter value, which is the number of issuances
\* completed (CertificateIssued in the log) plus those still inside their
\* receiver hook, so for calls made one after the other it is the number of
\* issuances completed.  The ids in use are exactly 0..counter-1 and no id
\* is reported by two CertificateIssued events.
C1_Ids ==
  /\ Issued = 0..(nextTokenId - 1)
  /\ Cardinality(IssuedEvents) + Len(pending) = nextTokenId
  /\ \A i, j \in IssuedEvents : log[i].tokenId = log[j].tokenId => i = j
  /\ \A i \in IssuedEvents : log[i].tokenId \in Issued
  /\ pending = <<>> => \A id \in Issued : \E i \in IssuedEvents : log[i].tokenId = id

C1_Step ==
  /\ Called(IssueOps) =>
       /\ nextTokenId' = nextTokenId + 1
       /\ last'.tokenId = nextTokenId
       /\ last'.tokenId = Cardinality(Issued)
       /\ last'.tokenId = Cardinality(IssuedEvents) + Len(pending)
       /\ ~certificateExists(nextTokenId)
       /\ certificateDetails'[nextTokenId].issuerAddress = last'.caller
       /\ certificateDetails'[nextTokenId].issueDate # 0
       /\ last'.op = "issueCertificate" => log' = Append(log, CertificateIssued(nextTokenId, last'.caller, last'.target))
  /\ ~Called(IssueOps) => nextTokenId' = nextTokenId
  /\ nextTokenId' >= nextTokenId

C2_Rejected ==
  \A id \in TokenIds : ownerOf(id) # ZERO =>
    /\ \A to \in Targets, auth \in Targets : UpdateResult(to, id, auth) = TransferForbidden
    /\ \A c \in Addr, from \in Targets, to \in Addr : TransferFromResult(c, from, to, id) = TransferForbidden
    /\ \A c \in Addr, from \in Targets, to \in Targets : TransferFromResult(c, from, to, id) # OK

C2_Step ==
  \A id \in TokenIds :
    /\ ownerOf(id) # ZERO => owners'[id] = owners[id]
    /\ owners'[id] # owners[id] =>
         /\ Called(IssueOps)
         /\ id = nextTokenId
         /\ owners[id] = ZERO
         /\ owners'[id] = last'.target

C2_Soulbound == []C2_Rejected /\ [][C2_Step]_vars

\* A token is owned and its issuer, who is also Admin and RootAdmin, is not
\* the owner: the owner, the issuer/Admin/RootAdmin all are refused.
C2_Witness ==
  /\ ownerOf(0) = "K"
  /\ certificateDetails[0].issuerAddress = Deployer
  /\ hasRole(ADMIN_ROLE, Deployer) /\ hasRole(DEFAULT_ADMIN_ROLE, Deployer)
  /\ pending = <<>>
  /\ last.op = "updateIssuerStatus"

\* ---- C3 ----------------------------------------------------------
\* C3 (as claimed): issueCertificate succeeds only for a caller that holds
\* ISSUER_ROLE and has an issuer record (registrationDate non-zero) whose
\* status is Active.
C3_NeedsRecord ==
  \A c \in Addr, to \in Targets, accepts \in BOOLEAN :
    IssueCertificateResult(c, to, accepts) = OK =>
      /\ hasRole(ISSUER_ROLE, c)
      /\ issuerExists(c)
      /\ issuers[c].status = Active

\* ---- C4 ----------------------------------------------------------
\* C4: a holder of ISSUER_ROLE whose status is Suspended gets
\* IssuerNotActive from issueCertificate, for every recipient, and no step
\* writes a certificate for an issuer that is Suspended; right after an
\* Admin's updateIssuerStatus(x, Active) a holder of the role can issue.
C4_Blocked ==
  \A c \in Addr : hasRole(ISSUER_ROLE, c) /\ issuers[c].status = Suspended =>
    \A to \in Targets, accepts \in BOOLEAN : IssueCertificateResult(c, to, accepts) = IssuerNotActive

C4_Step ==
  /\ \A id \in TokenIds : certificateDetails'[id] # certificateDetails[id] =>
       issuers[certificateDetails'[id].issuerAddress].status # Suspended
  /\ \A x \in Addr :
       Called({"updateIssuerStatus"}) /\ last'.target = x /\ last'.status = Active /\ hasRole(ISSUER_ROLE, x)' =>
         /\ issuers[x].status = Suspended
         /\ \A to \in Addr : IssueCertificateResult(x, to, TRUE)' = OK

C4_ActiveGate == []C4_Blocked /\ [][C4_Step]_vars

\* An issuer was suspended, set back to Active, and has issued since.
C4_Witness ==
  /\ last.op = "issueCertificate"
  /\ Len(log) >= 3
  /\ log[Len(log) - 2] = IssuerStatusUpdated(last.caller, Active, Suspended)
  /\ log[Len(log) - 1] = IssuerStatusUpdated(last.caller, Suspended, Active)
  /\ log[Len(log)] = CertificateIssued(last.tokenId, last.caller, last.target)

\* ---- C5 ----------------------------------------------------------
\* C5: Deactivated is terminal: an issuer whose status is Deactivated keeps
\* it in every step, and updateIssuerStatus by an Admin for that issuer
\* fails with IssuerDeactivated for each of the three target statuses.
C5_Refused ==
  \A a \in Addr : issuers[a].status = Deactivated =>
    /\ issuerExists(a)
    /\ \A c \in Addr, st \in IssuerStatus :
         hasRole(ADMIN_ROLE, c) => UpdateIssuerStatusResult(c, a, st) = IssuerDeactivated

C5_Step == \A a \in Addr : issuers[a].status = Deactivated => issuers'[a].status = Deactivated

C5_Terminal == []C5_Refused /\ [][C5_Step]_vars

\* A deactivated issuer, an Admin still in office, and a later call made.
C5_Witness ==
  \E a \in Addr :
    /\ issuers[a].status = Deactivated
    /\ \E c \in Addr : hasRole(ADMIN_ROLE, c)
    /\ last.op # "updateIssuerStatus"

\* ---- C6 ----------------------------------------------------------
\* C6 (as claimed): an issuer whose status is Deactivated does not hold
\* ISSUER_ROLE, in any reachable state.
C6_NeverIssuerAgain == \A a \in Addr : issuers[a].status = Deactivated => ~hasRole(ISSUER_ROLE, a)

\* ---- C7 ----------------------------------------------------------
\* C7 (as claimed): for an existing issuer and an Admin caller,
\* updateIssuerStatus with the issuer's current status fails with
\* StatusUnchanged, whatever that status is.
C7_AlwaysStatusUnchanged ==
  \A a \in Addr, c \in Addr : issuerExists(a) /\ hasRole(ADMIN_ROLE, c) =>
    UpdateIssuerStatusResult(c, a, issuers[a].status) = StatusUnchanged

\* C7 (amended): for an existing issuer and an Admin caller,
\* updateIssuerStatus with the issuer's current status always fails: with
\* StatusUnchanged when that status is Active or Suspended, with
\* IssuerDeactivated when it is Deactivated; and every successful
\* updateIssuerStatus changes the status.
C7_Redundant ==
  \A a \in Addr, c \in Addr : issuerExists(a) /\ hasRole(ADMIN_ROLE, c) =>
    UpdateIssuerStatusResult(c, a, issuers[a].status) =
      (IF issuers[a].status = Deactivated THEN IssuerDeactivated ELSE StatusUnchanged)

C7_Step == Called({"updateIssuerStatus"}) => issuers'[last'.target].status # issuers[last'.target].status

C7_RedundantRejected == []C7_Redundant /\ [][C7_Step]_vars

\* A Suspended and a Deactivated issuer exist while an Admin is in office.
C7_Witness ==
  /\ \E a \in Addr : issuerExists(a) /\ issuers[a].status = Suspended
  /\ \E a \in Addr : issuerExists(a) /\ issuers[a].status = Deactivated
  /\ \E c \in Addr : hasRole(ADMIN_ROLE, c)

\* ---- C8 ----------------------------------------------------------
\* C8: a status changes only along Active->Suspended, Suspended->Active,
\* Active->Deactivated, Suspended->Deactivated, only in a successful
\* updateIssuerStatus for that issuer whose caller holds ADMIN_ROLE; each of
\* the four is accepted from an Admin; a record comes into existence only
\* by addIssuer, with status Active.
Allowed == {<<Active, Suspended>>, <<Suspended, Active>>, <<Active, Deactivated>>, <<Suspended, Deactivated>>}

C8_Accepted ==
  \A a \in Addr : issuers[a].registrationDate # 0 =>
    \A c \in Addr, t \in IssuerStatus :
      hasRole(ADMIN_ROLE, c) /\ <<issuers[a].status, t>> \in Allowed => UpdateIssuerStatusResult(c, a, t) = OK

C8_Step ==
  \A a \in Addr :
    /\ issuers'[a].status # issuers[a].status =>
         /\ <<issuers[a].status, issuers'[a].status>> \in Allowed
         /\ issuers[a].registrationDate # 0
         /\ Called({"updateIssuerStatus"})
         /\ last'.target = a
         /\ last'.status = issuers'[a].status
         /\ hasRole(ADMIN_ROLE, last'.caller)
    /\ issuers[a].registrationDate = 0 /\ issuers'[a].registrationDate # 0 =>
         /\ Called({"addIssuer"})
         /\ last'.target = a
         /\ issuers'[a].status = Active

C8_StateMachine == []C8_Accepted /\ [][C8_Step]_vars

\* All four edges have been taken by one issuer or another.
C8_Witness ==
  /\ \E i \in 1..Len(log) : log[i].event = "IssuerStatusUpdated" /\ log[i].oldStatus = Active /\ log[i].newStatus = Suspended
  /\ \E i \in 1..Len(log) : log[i].event = "IssuerStatusUpdated" /\ log[i].oldStatus = Suspended /\ log[i].newStatus = Active
  /\ \E i \in 1..Len(log) : log[i].event = "IssuerStatusUpdated" /\ log[i].oldStatus = Active /\ log[i].newStatus = Deactivated

C8_WitnessSuspendedDeactivated ==
  \E i \in 1..Len(log) : log[i].event = "IssuerStatusUpdated" /\ log[i].oldStatus = Suspended /\ log[i].newStatus = Deactivated

\* ---- C9 ----------------------------------------------------------
\* C9: for an identity that has a record (registrationDate non-zero)
\* addIssuer never succeeds, whatever the record's status and whether or
\* not the identity holds ISSUER_ROLE: an Admin gets IssuerAlreadyExists (a
\* caller without ADMIN_ROLE is stopped earlier, Unauthorized); no step is
\* an addIssuer for it, and its name, website and registrationDate stay.
C9_Rejected ==
  \A a \in Addr : issuers[a].registrationDate # 0 =>
    \A c \in Addr :
      AddIssuerResult(c, a) = (IF hasRole(ADMIN_ROLE, c) THEN IssuerAlreadyExists ELSE Unauthorized)

C9_Step ==
  \A a \in Addr : issuers[a].registrationDate # 0 =>
    /\ ~(Called({"addIssuer"}) /\ last'.target = a)
    /\ issuers'[a].name = issuers[a].name
    /\ issuers'[a].website = issuers[a].website
    /\ issuers'[a].registrationDate = issuers[a].registrationDate
    /\ issuers[a].status = Deactivated => issuers'[a].status = Deactivated

C9_NoDuplicate == []C9_Rejected /\ [][C9_Step]_vars

\* A deactivated issuer without the role has a record from an earlier time,
\* and an addIssuer for someone else has just gone through.
C9_Witness ==
  \E a \in Addr :
    /\ issuers[a].status = Deactivated
    /\ ~hasRole(ISSUER_ROLE, a)
    /\ issuers[a].registrationDate < now
    /\ last.op = "addIssuer"
    /\ last.target # a

\* ---- C10 ---------------------------------------------------------
\* C10: a successful addIssuer(a, name, website) is made by a holder of
\* ADMIN_ROLE for an identity without a record; after it a holds
\* ISSUER_ROLE, the record of a is (name, website, Active, block time), the
\* log has grown by exactly the one event IssuerAdded(a), no other record
\* has changed, and issueCertificate by a is accepted.
C10_Step ==
  \A a \in Addr : Called({"addIssuer"}) /\ last'.target = a =>
    /\ hasRole(ADMIN_ROLE, last'.caller)
    /\ issuers[a].registrationDate = 0
    /\ hasRole(ISSUER_ROLE, a)'
    /\ issuers'[a] = [name |-> last'.s1, website |-> last'.s2, status |-> Active, registrationDate |-> now]
    /\ now # 0
    /\ log' = Append(log, IssuerAdded(a))
    /\ \A b \in Addr \ {a} : issuers'[b] = issuers[b]
    /\ \A to \in Addr : IssueCertificateResult(a, to, TRUE)' = OK

C10_AddIssuer == [][C10_Step]_vars

\* An issuer was added after the clock had moved and issued right away.
C10_Witness ==
  /\ last.op = "issueCertificate"
  /\ issuers[last.caller].registrationDate = MaxTime
  /\ Len(log) >= 2
  /\ log[Len(log) - 1] = IssuerAdded(last.caller)
  /\ log[Len(log)] = CertificateIssued(last.tokenId, last.caller, last.target)

\* ---- C11 ---------------------------------------------------------
\* C11: a successful updateIssuerStatus(a, Deactivated) writes the status
\* Deactivated and takes ISSUER_ROLE from a in the same step, touching no
\* other role membership, and appends IssuerRoleRevoked(a) followed by
\* IssuerStatusUpdated(a, old, Deactivated); a successful update to Active
\* or Suspended leaves the role table as it is and appends the one event
\* IssuerStatusUpdated(a, old, new).
C11_Step ==
  \A a \in Addr : Called({"updateIssuerStatus"}) /\ last'.target = a =>
    /\ issuers'[a].status = last'.status
    /\ last'.status = Deactivated =>
         /\ ~hasRole(ISSUER_ROLE, a)'
         /\ roles' = [roles EXCEPT ![ISSUER_ROLE] = @ \ {a}]
         /\ log' = log \o <<IssuerRoleRevoked(a), IssuerStatusUpdated(a, issuers[a].status, Deactivated)>>
    /\ last'.status # Deactivated =>
         /\ roles' = roles
         /\ log' = Append(log, IssuerStatusUpdated(a, issuers[a].status, last'.status))

C11_DeactivationRevokes == [][C11_Step]_vars

\* An issuer that held the role from its addIssuer was suspended and then
\* deactivated: the role is gone and the log ends with the two events.
C11_Witness ==
  \E a \in Addr :
    /\ last.op = "updateIssuerStatus" /\ last.target = a /\ last.status = Deactivated
    /\ issuers[a].status = Deactivated
    /\ ~hasRole(ISSUER_ROLE, a)
    /\ Len(log) = 4
    /\ log[1] = IssuerAdded(a)
    /\ log[2] = IssuerStatusUpdated(a, Active, Suspended)
    /\ log[3] = IssuerRoleRevoked(a)
    /\ log[4] = IssuerStatusUpdated(a, Suspended, Deactivated)

\* ---- C12 ---------------------------------------------------------
\* C12 (under SpecTx, where failing calls are steps): the role table, the
\* issuer table, the certificate table, the owners, the counter and the log
\* change only in a successful call, in the return of its receiver hook, or
\* between the failure of an issueCertificate and its revert; a call of
\* addIssuer, updateIssuerStatus, issueCertificate, grantRole, revokeRole or
\* transferFrom whose Result is not OK changes none of them.  An
\* issueCertificate that fails in the mint has by then incremented the
\* counter and written the record; its revert gives back exactly what was
\* there when the call began, so outside a reverting call the ids in use
\* are 0..counter-1, the id it had taken is unwritten and unowned, and the
\* next successful issuance gets that same id.
Storage == [roles |-> roles, issuers |-> issuers, certificateDetails |-> certificateDetails,
            nextTokenId |-> nextTokenId, owners |-> owners, log |-> log]

C12_Settled ==
  /\ checkpoint = NoCheckpoint =>
       /\ Issued = 0..(nextTokenId - 1)
       /\ Cardinality(IssuedEvents) + Len(pending) = nextTokenId
       /\ \A id \in TokenIds : id >= nextTokenId => certificateDetails[id] = NoCertificate /\ ownerOf(id) = ZERO
       /\ last.result \notin {OK, "running"} =>
            /\ last.op = "issueCertificate"
            /\ last.tokenId = nextTokenId
  /\ checkpoint # NoCheckpoint =>
       /\ nextTokenId = checkpoint.saved.nextTokenId + 1
       /\ certificateExists(checkpoint.saved.nextTokenId)
       /\ checkpoint.saved.certificateDetails[checkpoint.saved.nextTokenId] = NoCertificate
       /\ checkpoint.result \notin {OK, Unauthorized, IssuerNotActive}

C12_Step ==
  /\ checkpoint # NoCheckpoint =>
       /\ Storage' = checkpoint.saved
       /\ checkpoint' = NoCheckpoint
       /\ last'.result = checkpoint.result
       /\ last'.n = last.n
  /\ Storage' # Storage =>
       \/ last'.n = last.n + 1 /\ last'.result \in {OK, "running"}
       \/ Len(pending') < Len(pending) /\ last'.result = OK
       \/ checkpoint' # NoCheckpoint /\ checkpoint'.saved = Storage
       \/ checkpoint # NoCheckpoint
  /\ Called(IssueOps) /\ last.result \notin {OK, "running"} => last'.tokenId = last.tokenId

C12_AllOrNothing == []C12_Settled /\ [][C12_Step]_vars

\* After one issuance that went through, a second one has failed in its
\* mint and has been reverted: its id, 1, is free again.
C12_Witness ==
  /\ checkpoint = NoCheckpoint
  /\ last.op = "issueCertificate"
  /\ last.result = InvalidReceiver
  /\ last.tokenId = 1
  /\ nextTokenId = 1
  /\ certificateDetails[1] = NoCertificate
  /\ ownerOf(1) = ZERO
  /\ log[Len(log)].event = "CertificateIssued"

\* ---- C13 ---------------------------------------------------------
\* C13: grantRole and revokeRole of ADMIN_ROLE are accepted from a holder of
\* DEFAULT_ADMIN_ROLE and from nobody else, those of ISSUER_ROLE from a
\* holder of ADMIN_ROLE and from nobody else, the others getting
\* Unauthorized; addIssuer and updateIssuerStatus answer Unauthorized to
\* every caller without ADMIN_ROLE, holders of DEFAULT_ADMIN_ROLE included.
\* After the constructor an account gains ADMIN_ROLE only in a grantRole
\* whose caller holds DEFAULT_ADMIN_ROLE, and ISSUER_ROLE only in a grantRole
\* or addIssuer whose caller holds ADMIN_ROLE.
C13_Authorized ==
  \A c \in Addr :
    /\ GrantRoleResult(c, ADMIN_ROLE) = (IF hasRole(DEFAULT_ADMIN_ROLE, c) THEN OK ELSE Unauthorized)
    /\ RevokeRoleResult(c, ADMIN_ROLE) = (IF hasRole(DEFAULT_ADMIN_ROLE, c) THEN OK ELSE Unauthorized)
    /\ GrantRoleResult(c, ISSUER_ROLE) = (IF hasRole(ADMIN_ROLE, c) THEN OK ELSE Unauthorized)
    /\ RevokeRoleResult(c, ISSUER_ROLE) = (IF hasRole(ADMIN_ROLE, c) THEN OK ELSE Unauthorized)
    /\ ~hasRole(ADMIN_ROLE, c) =>
         \A a \in Addr :
           /\ AddIssuerResult(c, a) = Unauthorized
           /\ \A st \in IssuerStatus : UpdateIssuerStatusResult(c, a, st) = Unauthorized

C13_Step ==
  /\ \A x \in Addr : ~hasRole(ADMIN_ROLE, x) /\ hasRole(ADMIN_ROLE, x)' =>
       /\ Called({"grantRole"})
       /\ last'.role = ADMIN_ROLE
       /\ last'.target = x
       /\ hasRole(DEFAULT_ADMIN_ROLE, last'.caller)
  /\ \A x \in Addr : ~hasRole(ISSUER_ROLE, x) /\ hasRole(ISSUER_ROLE, x)' =>
       /\ (Called({"grantRole"}) /\ last'.role = ISSUER_ROLE) \/ Called({"addIssuer"})
       /\ last'.target = x
       /\ hasRole(ADMIN_ROLE, last'.caller)
  /\ Called({"grantRole", "revokeRole"}) =>
       /\ last'.role = ADMIN_ROLE => hasRole(DEFAULT_ADMIN_ROLE, last'.caller)
       /\ last'.role = ISSUER_ROLE => hasRole(ADMIN_ROLE, last'.caller)
  /\ Called({"addIssuer", "updateIssuerStatus"}) => hasRole(ADMIN_ROLE, last'.caller)

C13_RoleAdmins == []C13_Authorized /\ [][C13_Step]_vars

\* An account was made RootAdmin without being Admin while an active issuer
\* exists, and another account is Admin without being RootAdmin.
C13_Witness ==
  /\ \E x \in Addr : hasRole(DEFAULT_ADMIN_ROLE, x) /\ ~hasRole(ADMIN_ROLE, x)
  /\ \E y \in Addr : hasRole(ADMIN_ROLE, y) /\ ~hasRole(DEFAULT_ADMIN_ROLE, y)
  /\ \E a \in Addr : issuerExists(a) /\ issuers[a].status = Active /\ hasRole(ISSUER_ROLE, a)
  /\ last.op = "grantRole"

C15_Owned == \A id \in TokenIds : certificateExists(id) => ownerOf(id) = certificateDetails[id].recipientAddress

C15_Step ==
  /\ \A id \in TokenIds : certificateExists(id) =>
       /\ certificateDetails'[id] = certificateDetails[id]
       /\ getCertificateDetailsResult(id)' = OK
       /\ getCertificateDetails(id)' = getCertificateDetails(id)
  /\ Called(IssueOps) =>
       certificateDetails'[nextTokenId] =
         [recipientName |-> last'.s1, recipientAddress |-> last'.target, issuerAddress |-> last'.caller,
          issueDate |-> now, courseTitle |-> last'.s2]

C15_Immutable == []C15_Owned /\ [][C15_Step]_vars

\* Certificate 0 was followed by a second issuance, time has passed, and
\* its issuer has been deactivated and has lost the role.
C15_Witness ==
  /\ nextTokenId = 2
  /\ pending = <<>>
  /\ certificateDetails[0].issueDate < now
  /\ issuers[certificateDetails[0].issuerAddress].status = Deactivated
  /\ ~hasRole(ISSUER_ROLE, certificateDetails[0].issuerAddress)
  /\ last.op = "updateIssuerStatus"

\* ---- C16 ---------------------------------------------------------
\* C16: the lifecycle scenario, stage by stage.  The state after exactly the
\* scenario's first k successful calls is recognised by the call count and
\* the log.  After addIssuer(I): I can issue to R.  After I's issuance to
\* R: it has id 0.  After updateIssuerStatus(I, Suspended): every
\* issueCertificate by I fails with IssuerNotActive.  After
\* updateIssuerStatus(I, Deactivated): every issueCertificate by I fails
\* with Unauthorized (the modifier runs before the status require),
\* updateIssuerStatus(I, Active) by the Admin fails with IssuerDeactivated,
\* and certificate 0 is still there, with issuer I and recipient R, as it
\* was written.
ScenarioLog(I, R) ==
  << IssuerAdded(I), CertificateIssued(0, I, R), IssuerStatusUpdated(I, Active, Suspended),
     IssuerRoleRevoked(I), IssuerStatusUpdated(I, Suspended, Deactivated) >>

Stage(k, I, R) ==
  /\ last.n = k
  /\ pending = <<>>
  /\ log = SubSeq(ScenarioLog(I, R), 1, IF k = 4 THEN 5 ELSE k)

C16_Stages ==
  \A I \in Addr, R \in Addr :
    /\ Stage(1, I, R) =>
         /\ last.op = "addIssuer" /\ last.target = I /\ hasRole(ADMIN_ROLE, last.caller)
         /\ IssueCertificateResult(I, R, TRUE) = OK
    /\ Stage(2, I, R) =>
         /\ last.op = "issueCertificate" /\ last.caller = I /\ last.target = R
         /\ last.tokenId = 0
         /\ getCertificateDetailsResult(0) = OK
    /\ Stage(3, I, R) =>
         /\ last.op = "updateIssuerStatus" /\ last.status = Suspended /\ hasRole(ADMIN_ROLE, last.caller)
         /\ hasRole(ISSUER_ROLE, I)
         /\ \A to \in Targets, accepts \in BOOLEAN : IssueCertificateResult(I, to, accepts) = IssuerNotActive
    /\ Stage(4, I, R) =>
         /\ last.op = "updateIssuerStatus" /\ last.status = Deactivated /\ hasRole(ADMIN_ROLE, last.caller)
         /\ \A to \in Targets, accepts \in BOOLEAN : IssueCertificateResult(I, to, accepts) = Unauthorized
         /\ UpdateIssuerStatusResult(last.caller, I, Active) = IssuerDeactivated
         /\ getCertificateDetailsResult(0) = OK
         /\ getCertificateDetails(0).issuerAddress = I
         /\ getCertificateDetails(0).recipientAddress = R
         /\ getCertificateDetails(0).issueDate \in 1..now
         /\ ownerOf(0) = R

C16_Step == \A I \in Addr, R \in Addr, k \in 2..3 : Stage(k, I, R) => certificateDetails'[0] = certificateDetails[0]

C16_Lifecycle == []C16_Stages /\ [][C16_Step]_vars

\* The end of the scenario, with an issuer that is not the Admin.
C16_Witness ==
  \E I \in Addr, R \in Addr :
    /\ Stage(4, I, R)
    /\ I # last.caller
    /\ I # R
    /\ issuers[I].status = Deactivated
    /\ certificateExists(0)

\* ---- C17 ---------------------------------------------------------
\* C17 (as claimed): no call runs inside another one, so in every reachable
\* state the CertificateIssued events stand in the log in strictly
\* increasing order of their ids.
C17_EventsInOrder ==
  \A i, j \in IssuedEvents : i < j => log[i].tokenId < log[j].tokenId

\* ---- C18 ---------------------------------------------------------
\* C18: _issuerExists(a), the test registrationDate != 0, is true exactly
\* for the identities for which an addIssuer has succeeded, each of which
\* has exactly one IssuerAdded event in the log: a step is a successful
\* addIssuer for a exactly when it appends IssuerAdded(a), after it the test
\* is true for a and stays true, so a second addIssuer is refused and
\* cannot overwrite the record; for an identity never added the test is
\* false, also when the identity holds ISSUER_ROLE.
Added(a) == {i \in 1..Len(log) : log[i] = IssuerAdded(a)}

C18_Exists ==
  \A a \in Addr :
    /\ issuerExists(a) <=> Added(a) # {}
    /\ issuerExists(a) <=> issuers[a].registrationDate # 0
    /\ Cardinality(Added(a)) <= 1
    /\ issuerExists(a) => issuers[a].registrationDate \in 1..now /\ issuers[a].name # ""
    /\ ~issuerExists(a) => issuers[a] = NoIssuer
    /\ \A c \in Addr : hasRole(ADMIN_ROLE, c) =>
         AddIssuerResult(c, a) = (IF Added(a) # {} THEN IssuerAlreadyExists ELSE OK)

C18_Step ==
  \A a \in Addr :
    /\ (Called({"addIssuer"}) /\ last'.target = a) <=> Added(a)' # Added(a)
    /\ Called({"addIssuer"}) /\ last'.target = a => ~issuerExists(a) /\ issuerExists(a)'
    /\ issuerExists(a) => issuerExists(a)'

C18_ExistenceRule == []C18_Exists /\ [][C18_Step]_vars

\* One identity has been added and has since been deactivated, the other
\* holds ISSUER_ROLE by a grant without ever having been added.
C18_Witness ==
  \E a, b \in Addr :
    /\ issuerExists(a) /\ issuers[a].status = Deactivated /\ ~hasRole(ISSUER_ROLE, a)
    /\ ~issuerExists(b) /\ hasRole(ISSUER_ROLE, b) /\ Added(b) = {}

\* ---- C19 ---------------------------------------------------------
\* C19: an issuer record, once created, keeps its name, website and
\* registrationDate and stays in existence in every step.  A successful
\* updateIssuerStatus(a, s) changes in the issuer table the status of a and
\* nothing else, in the role table nothing, or for Deactivated the
\* membership of a in ISSUER_ROLE and nothing else, and leaves the
\* certificate table, the owners and the counter as they are.  The issuer
\* table changes only in addIssuer and updateIssuerStatus: issueCertificate,
\* the return of its hook, grantRole, revokeRole and renounceRole leave it
\* untouched.
C19_Step ==
  /\ \A a \in Addr : issuerExists(a) =>
       /\ issuerExists(a)'
       /\ issuers'[a].name = issuers[a].name
       /\ issuers'[a].website = issuers[a].website
       /\ issuers'[a].registrationDate = issuers[a].registrationDate
  /\ \A a \in Addr : Called({"updateIssuerStatus"}) /\ last'.target = a =>
       /\ issuers' = [issuers EXCEPT ![a].status = last'.status]
       /\ roles' = (IF last'.status = Deactivated THEN [roles EXCEPT ![ISSUER_ROLE] = @ \ {a}] ELSE roles)
       /\ certificateDetails' = certificateDetails
       /\ owners' = owners
       /\ nextTokenId' = nextTokenId
  /\ issuers' # issuers => Called({"addIssuer", "updateIssuerStatus"})
  /\ Called(IssueOps \cup {"grantRole", "revokeRole", "renounceRole"}) => issuers' = issuers
  /\ Len(pending') < Len(pending) => issuers' = issuers

C19_IssuerFrame == [][C19_Step]_vars

\* Two issuers and a certificate exist, time has passed since the
\* registration, and one of the issuers has just been suspended.
C19_Witness ==
  \E a, b \in Addr :
    /\ a # b
    /\ last.op = "updateIssuerStatus" /\ last.target = a
    /\ issuers[a].status = Suspended /\ issuers[a].registrationDate < now
    /\ issuerExists(b) /\ issuers[b].status = Active
    /\ nextTokenId >= 1

\* ---- C20 ---------------------------------------------------------
\* C20 (as claimed): in every step in which an account loses a role, the
\* step is a revokeRole of that role for that account by a holder of the
\* role's admin role or, for ISSUER_ROLE, a successful
\* updateIssuerStatus(account, Deactivated).
C20_Step ==
  \A x \in Addr, role \in Roles : hasRole(role, x) /\ ~hasRole(role, x)' =>
    \/ /\ Called({"revokeRole"})
       /\ last'.role = role
       /\ last'.target = x
       /\ hasRole(getRoleAdmin(role), last'.caller)
    \/ /\ role = ISSUER_ROLE
       /\ Called({"updateIssuerStatus"})
       /\ last'.target = x
       /\ last'.status = Deactivated

C20_OnlyRevoked == [][C20_Step]_vars

\* ---- C21 ---------------------------------------------------------
\* C21: a successful updateIssuerStatus to Suspended or to Active leaves the
\* whole role table as it is, so an issuer that held ISSUER_ROLE holds it
\* when Suspended; a successful grantRole or revokeRole of ISSUER_ROLE
\* leaves the issuer table, every status included, as it is, and the very
\* next call sees it: after the revoke every issueCertificate by that
\* account answers Unauthorized, whatever its status, after the grant the
\* account passes the modifier and is judged by its status alone.
C21_Step ==
  /\ Called({"updateIssuerStatus"}) /\ last'.status \in {Active, Suspended} => roles' = roles
  /\ \A x \in Addr : Called({"grantRole", "revokeRole"}) /\ last'.role = ISSUER_ROLE /\ last'.target = x =>
       /\ issuers' = issuers
       /\ \A r \in Roles \ {ISSUER_ROLE} : roles'[r] = roles[r]
       /\ \A y \in Addr \ {x} : hasRole(ISSUER_ROLE, y)' = hasRole(ISSUER_ROLE, y)
       /\ last'.op = "revokeRole" =>
            /\ hasRole(ISSUER_ROLE, x) /\ ~hasRole(ISSUER_ROLE, x)'
            /\ \A to \in Targets, accepts \in BOOLEAN : IssueCertificateResult(x, to, accepts)' = Unauthorized
       /\ last'.op = "grantRole" =>
            /\ ~hasRole(ISSUER_ROLE, x) /\ hasRole(ISSUER_ROLE, x)'
            /\ \A to \in Addr :
                 IssueCertificateResult(x, to, TRUE)' = (IF issuers[x].status = Active THEN OK ELSE IssuerNotActive)

C21_Suspended ==
  \A x \in Addr : last.op = "updateIssuerStatus" /\ last.target = x /\ last.status = Suspended /\ hasRole(ISSUER_ROLE, x) =>
    \A to \in Targets, accepts \in BOOLEAN : IssueCertificateResult(x, to, accepts) = IssuerNotActive

C21_Independent == []C21_Suspended /\ [][C21_Step]_vars

\* One issuer has been suspended and holds the role; the other, Active,
\* has just had the role revoked.
C21_Witness ==
  \E x, y \in Addr :
    /\ last.op = "revokeRole" /\ last.role = ISSUER_ROLE /\ last.target = x
    /\ issuerExists(x) /\ issuers[x].status = Active /\ ~hasRole(ISSUER_ROLE, x)
    /\ issuerExists(y) /\ issuers[y].status = Suspended /\ hasRole(ISSUER_ROLE, y)

\* ---- C22 ---------------------------------------------------------
\* C22 (under SpecTx, where failing calls are steps): the log only grows, by
\* appending, and only in a successful call or in the return of its
\* receiver hook; a failing call, the one that reverts after partial writes
\* included, appends nothing.  A successful issueCertificate appends exactly
\* one CertificateIssued, at its end (for a contract recipient after the
\* hook has returned), with the id the call took from the counter and the
\* issuer and recipient of the record stored under that id.  A successful
\* updateIssuerStatus appends exactly one IssuerStatusUpdated, last in what
\* it appends, with the status before and the status after the call, which
\* differ, the old one never Deactivated.  In every state the events agree
\* with the tables.
StatusEvents == {i \in 1..Len(log) : log[i].event = "IssuerStatusUpdated"}

C22_Agrees ==
  /\ \A i \in IssuedEvents :
       /\ log[i].tokenId \in 0..(nextTokenId - 1)
       /\ log[i].issuer = certificateDetails[log[i].tokenId].issuerAddress
       /\ log[i].recipient = certificateDetails[log[i].tokenId].recipientAddress
       /\ \A j \in IssuedEvents : log[j].tokenId = log[i].tokenId => j = i
  /\ checkpoint = NoCheckpoint => Cardinality(IssuedEvents) + Len(pending) = nextTokenId
  /\ \A i \in StatusEvents :
       /\ log[i].oldStatus # log[i].newStatus
       /\ log[i].oldStatus # Deactivated
       /\ (\A j \in StatusEvents : j > i => log[j].issuerAddress # log[i].issuerAddress) =>
            issuers[log[i].issuerAddress].status = log[i].newStatus
  /\ \A a \in Addr : (\A i \in StatusEvents : log[i].issuerAddress # a) => issuers[a].status = Active

C22_Step ==
  /\ Len(log') >= Len(log)
  /\ SubSeq(log', 1, Len(log)) = log
  /\ log' # log =>
       \/ last'.n = last.n + 1 /\ last'.result = OK
       \/ Len(pending') < Len(pending) /\ last'.result = OK
  /\ last'.result # OK => log' = log
  /\ Called({"issueCertificate"}) =>
       /\ Len(log') = Len(log) + 1
       /\ log'[Len(log')].event = "CertificateIssued"
       /\ log'[Len(log')].tokenId = nextTokenId
       /\ log'[Len(log')].issuer = last'.caller
       /\ log'[Len(log')].issuer = certificateDetails'[nextTokenId].issuerAddress
       /\ log'[Len(log')].recipient = certificateDetails'[nextTokenId].recipientAddress
  /\ Len(pending') < Len(pending) =>
       /\ Len(log') = Len(log) + 1
       /\ log'[Len(log')].event = "CertificateIssued"
       /\ log'[Len(log')].tokenId = pending[Len(pending)].tokenId
       /\ log'[Len(log')].issuer = pending[Len(pending)].caller
       /\ log'[Len(log')].issuer = certificateDetails[pending[Len(pending)].tokenId].issuerAddress
       /\ log'[Len(log')].recipient = certificateDetails[pending[Len(pending)].tokenId].recipientAddress
  /\ \A a \in Addr : Called({"updateIssuerStatus"}) /\ last'.target = a =>
       /\ Cardinality(StatusEvents') = Cardinality(StatusEvents) + 1
       /\ Len(log') = Len(log) + (IF last'.status = Deactivated THEN 2 ELSE 1)
       /\ log'[Len(log')] = [event |-> "IssuerStatusUpdated", issuerAddress |-> a,
                             oldStatus |-> issuers[a].status, newStatus |-> issuers'[a].status]
       /\ issuers[a].status # issuers'[a].status
       /\ issuers[a].status # Deactivated

C22_AuditLog == []C22_Agrees /\ [][C22_Step]_vars

\* An issuer was suspended and reactivated and has then issued to a
\* contract, whose hook has returned: the log ends with the event of id 0.
C22_Witness ==
  /\ pending = <<>>
  /\ checkpoint = NoCheckpoint
  /\ last.op = "issueCertificate" /\ last.result = OK /\ last.target \in Contracts /\ last.caller # last.target
  /\ Len(log) = 4
  /\ log[2].event = "IssuerStatusUpdated" /\ log[2].newStatus = Suspended
  /\ log[3].event = "IssuerStatusUpdated" /\ log[3].oldStatus = Suspended
  /\ log[4].event = "CertificateIssued" /\ log[4].tokenId = 0 /\ log[4].recipient = last.target

\* ---- C23 ---------------------------------------------------------
\* C23: for an identity whose status is Deactivated every issueCertificate
\* fails, with Unauthorized without ISSUER_ROLE and with IssuerNotActive
\* with it (an Admin can grant the role again); the status stays Deactivated
\* in every step, addIssuer and updateIssuerStatus for it are refused, no
\* issuance is started by it, and every record that comes into existence
\* has an issuer whose status is Active at that moment.
C23_Refused ==
  \A a \in Addr : issuers[a].status = Deactivated =>
    /\ \A to \in Targets, accepts \in BOOLEAN :
         IssueCertificateResult(a, to, accepts) = (IF hasRole(ISSUER_ROLE, a) THEN IssuerNotActive ELSE Unauthorized)
    /\ \A c \in Addr : AddIssuerResult(c, a) # OK
    /\ \A c \in Addr, st \in IssuerStatus : UpdateIssuerStatusResult(c, a, st) # OK

C23_Step ==
  /\ \A a \in Addr : issuers[a].status = Deactivated =>
       /\ issuers'[a].status = Deactivated
       /\ ~(Called(IssueOps) /\ last'.caller = a)
       /\ \A id \in TokenIds : ~certificateExists(id) /\ certificateExists(id)' => certificateDetails'[id].issuerAddress # a
  /\ \A id \in TokenIds : ~certificateExists(id) /\ certificateExists(id)' =>
       /\ certificateDetails'[id].issuerAddress \in Addr
       /\ issuers[certificateDetails'[id].issuerAddress].status = Active

C24_Agree ==
  \A id \in TokenIds :
    /\ (certificateDetails[id].issueDate # 0) <=> (ownerOf(id) # ZERO)
    /\ certificateExists(id) <=> (ownerOf(id) # ZERO)
    /\ (ownerOf(id) # ZERO) <=> (id < nextTokenId)
    /\ ownerOf(id) # ZERO => ownerOf(id) = certificateDetails[id].recipientAddress /\ ownerOf(id) \in Addr
    /\ id >= nextTokenId => certificateDetails[id] = NoCertificate /\ ownerOf(id) = ZERO

C24_Step ==
  \A id \in TokenIds :
    /\ (certificateDetails'[id] # certificateDetails[id]) <=> (owners'[id] # owners[id])
    /\ owners'[id] # owners[id] => Called(IssueOps) /\ id = nextTokenId /\ owners'[id] = certificateDetails'[id].recipientAddress
    /\ ownerOf(id) # ZERO => owners'[id] = owners[id] /\ certificateDetails'[id] = certificateDetails[id]

C24_TablesAgree == []C24_Agree /\ [][C24_Step]_vars

\* Two certificates with different owners, the second one still inside the
\* receiver hook of its recipient; id 2 is free.
C24_Witness ==
  /\ nextTokenId = 2
  /\ pending # <<>>
  /\ ownerOf(0) # ZERO /\ ownerOf(1) # ZERO /\ ownerOf(0) # ownerOf(1)
  /\ certificateExists(0) /\ certificateExists(1)
  /\ ~certificateExists(2) /\ ownerOf(2) = ZERO

====
